---- MODULE Spec2Model ----
(***************************************************************************)
(* TorrentArchive of lib/torrent/storage/agentstorage: Stat, CreateTorrent, *)
(* GetTorrent and DeleteTorrent called by concurrent goroutines over one    *)
(* store.FileStore and one metainfoclient.Client.                           *)
(*                                                                         *)
(* Every call of a collaborator (file store, metainfo client, NewTorrent)  *)
(* is one atomic step of the calling goroutine; the code between two such  *)
(* calls touches only locals and belongs to the step that follows it.      *)
(***************************************************************************)
EXTENDS Integers, Sequences, FiniteSets, TLC

(* ---------------------------------------------------------------- bounds *)

\* goroutines that call into the archive
NumProcs == 2
\* calls issued over a whole run
MaxCalls == 2
\* largest explicitly configured UnavailableMetaInfoRetries
MaxRetries == 2

Procs == 1 .. NumProcs
\* torrent names (content digests)
Names == {"a", "b"}
\* values of the MetaInfo fields other than name and length
Extras == {0, 1}

(* ----------------------------------------------------------------- errors *)

\* An error is the sequence of the parts of its message. A sentinel is a
\* one-part error and is recognised by equality (Go's ==, os.IsNotExist);
\* fmt.Errorf("ctx: %s", err) builds a NEW error value that only carries the
\* text of err.
Nil == <<>>
ErrNotExist == <<"os.ErrNotExist">>
ErrNotFound == <<"storage.ErrNotFound">>
ClientErrNotFound == <<"metainfoclient.ErrNotFound">>
ErrUnavailable == <<"metainfo unavailable">>
ErrIO == <<"i/o error">>
ErrBencode == <<"bencode: syntax error">>

Text(e) == IF e = Nil THEN <<"%!s(<nil>)">> ELSE e
Errorf(ctx, e) == <<ctx>> \o Text(e)
IsNotExist(e) == e = ErrNotExist

(* --------------------------------------------------------------- MetaInfo *)

\* The length of a torrent is a function of its name: the name is the digest
\* of the content (comment at lines 103-107).
LengthOf(n) == IF n = "a" THEN 1 ELSE 2

NoMi == [name |-> "", length |-> 0, extra |-> 0]
MetaInfo(n, x) == [name |-> n, length |-> LengthOf(n), extra |-> x]

\* mi.Serialize(): the bytes of a MetaInfo.
Serialize(mi) == <<mi.name, mi.length, mi.extra>>
\* Bytes that are no encoding of a MetaInfo.
WellFormed(raw) == Len(raw) = 3
\* core.DeserializeMetaInfo(raw): the MetaInfo and the error.
DeserializeMetaInfo(raw) ==
    IF WellFormed(raw)
    THEN [mi |-> [name |-> raw[1], length |-> raw[2], extra |-> raw[3]], err |-> Nil]
    ELSE [mi |-> NoMi, err |-> ErrBencode]

\* An absent metadata slot / an absent file.
Absent == <<>>
NoFile == 0
(* ------------------------------------------------------------------ state *)

VARIABLES
    config,       \* a.config after NewTorrentArchive
    tracker,      \* what a.metaInfoClient talks to: "honest" or "any"
    failing,      \* whether I/O of the file store and of NewTorrent may fail
    files,        \* file store: name -> allocated length of the download/cache file
    metadata,     \* file store: name -> bytes of the TorrentMeta slot
    pieceStatus,  \* file store: name -> bytes of the PieceStatus slot
    pc,           \* goroutine -> where it stands in its call ("idle": no call)
    op,           \* goroutine -> the method of its current (or last) call
    name,         \* goroutine -> the name argument of that call
    i,            \* goroutine -> loop counter of downloadMetaInfo
    err,          \* goroutine -> err of downloadMetaInfo (last Download error)
    fetched,      \* goroutine -> mi returned by downloadMetaInfo
    miRaw,        \* goroutine -> miRaw of CreateTorrent / GetTorrent
    result,       \* goroutine -> what its last call returned
    log,          \* goroutine -> the collaborator calls its call has made, in order
    stale,        \* goroutine -> a DeleteTorrent of its name ran since its call began
    overlap,      \* goroutine -> the goroutines whose CreateTorrent of the same
                  \* name ran during its CreateTorrent
    deleted,      \* name -> a DeleteTorrent of the name has reached the file store
    budget        \* calls the run may still issue

vars == <<config, tracker, failing, files, metadata, pieceStatus, pc, op, name, i, err, fetched,
          miRaw, result, log, stale, overlap, deleted, budget>>

env == <<config, tracker, failing>>
store == <<files, metadata, pieceStatus>>
locals == <<i, err, fetched, miRaw>>
history == <<stale, overlap, deleted>>

NoResult == [t |-> NoMi, b |-> <<>>, err |-> Nil]
\* (storage.Torrent, nil), (*storage.TorrentInfo, nil), (nil, err)
Torrent(mi) == [t |-> mi, b |-> <<>>, err |-> Nil]
TorrentInfo(mi, b) == [t |-> mi, b |-> b, err |-> Nil]
Failure(e) == [t |-> NoMi, b |-> <<>>, err |-> e]

\* One entry of log: the collaborator call and how it ended.
Ev(call, outcome) == <<call, outcome>>

(* ----------------------------------------------------------- configuration *)

\* A Config leaves UnavailableMetaInfoRetries unset or sets it to a number.
UnsetConfig == [set |-> FALSE, UnavailableMetaInfoRetries |-> 0]
Configs == {UnsetConfig} \cup
           {[set |-> TRUE, UnavailableMetaInfoRetries |-> k] : k \in 0 .. MaxRetries}

DefaultRetries == 2
\* config.applyDefaults(): an unset retry count becomes the default, a set
\* one is kept.
applyDefaults(c) ==
    IF c.set THEN c ELSE [set |-> TRUE, UnavailableMetaInfoRetries |-> DefaultRetries]

\* NewTorrentArchive(config, stats, fs, mic): the config the archive keeps
NewTorrentArchive(c) == applyDefaults(c)
\* DefaultTorrentArchive(stats, fs, mic)
DefaultTorrentArchive == NewTorrentArchive(UnsetConfig)

(* ------------------------------------------------------------- file store *)

\* GetMetadata(name, md): the bytes of the slot, or os.ErrNotExist.
GetMetadata(slots, n) ==
    IF slots[n] = Absent
    THEN [raw |-> Absent, err |-> ErrNotExist]
    ELSE [raw |-> slots[n], err |-> Nil]

\* GetOrSetMetadata(name, md, b): writes b if the slot is absent; returns the
\* bytes the slot holds afterwards.
GetOrSetMetadata(slots, n, raw) ==
    IF slots[n] = Absent
    THEN [slots |-> [slots EXCEPT ![n] = raw], raw |-> raw]
    ELSE [slots |-> slots, raw |-> slots[n]]

\* SetMetadata(name, md, b): writes b whatever the slot holds.
SetMetadata(slots, n, raw) == [slots |-> [slots EXCEPT ![n] = raw], raw |-> raw]

\* EnsureDownloadOrCacheFilePresent(name, length): allocates the file unless
\* it exists.
EnsureDownloadOrCacheFilePresent(fs, n, length) ==
    IF fs[n] = NoFile THEN [fs EXCEPT ![n] = length] ELSE fs

\* What an I/O call of the file store returns besides success.
IOErrors == IF failing THEN {ErrIO} ELSE {}

\* What a call of GetMetadata may return: what the slot holds, or an I/O error.
GetMetadataOutcomes(slots, n) ==
    {GetMetadata(slots, n)} \cup {[raw |-> Absent, err |-> e] : e \in IOErrors}
\* How log names the error of a read.
ReadOutcome(e) ==
    IF e = Nil THEN "ok" ELSE IF e = ErrNotExist THEN "NotExist" ELSE "error"

(* --------------------------------------------------------- metainfo client *)

\* What metaInfoClient.Download(namespace, name) may return: a MetaInfo,
\* ErrNotFound, or another error. An honest tracker answers with a MetaInfo
\* of the name it was asked for; any other may answer with one of another
\* name.
Trackers == {"honest", "any"}
DownloadOutcomes(n) ==
    {[mi |-> MetaInfo(n, x), err |-> Nil] : x \in Extras}
    \cup (IF tracker = "any"
          THEN {[mi |-> MetaInfo(m, 0), err |-> Nil] : m \in Names \ {n}}
          ELSE {})
    \cup {[mi |-> NoMi, err |-> ClientErrNotFound], [mi |-> NoMi, err |-> ErrUnavailable]}

(* ------------------------------------------------------------------- Init *)

\* The file store the archive is constructed over: empty, or holding the
\* torrent "a" that an earlier run of the agent left in it.
EmptyStore ==
    [files |-> [n \in Names |-> NoFile],
     metadata |-> [n \in Names |-> Absent],
     pieceStatus |-> [n \in Names |-> Absent]]
StoredTorrent(n, x, b) ==
    [files |-> [EmptyStore.files EXCEPT ![n] = LengthOf(n)],
     metadata |-> [EmptyStore.metadata EXCEPT ![n] = Serialize(MetaInfo(n, x))],
     pieceStatus |-> [EmptyStore.pieceStatus EXCEPT ![n] = b]]
InitStores == {EmptyStore, StoredTorrent("a", 0, <<1>>)}

\* A byte of the PieceStatus slot is one of empty, complete and dirty.
PieceStatuses == {0, 1, 2}
WellFormedPieceStatus(raw) == \A k \in DOMAIN raw : raw[k] \in PieceStatuses
\* The states an earlier run may have left the torrent "a" in: whole, with
\* corrupted MetaInfo bytes, without piece status, with a piece status byte
\* that is no status.
CorruptTorrent(n) ==
    [StoredTorrent(n, 0, <<1>>) EXCEPT !.metadata[n] = <<"garbage">>]
StoredStores ==
    InitStores \cup {CorruptTorrent("a"), StoredTorrent("a", 0, Absent),
                     StoredTorrent("a", 0, <<1, 9>>)}

\* The state after construction: an archive with one of the configs cfgs
\* over one of the file stores (its I/O may fail or not) and one of the
\* trackers, and callers that will issue calls calls.
ConstructedOver(stores, cfgs, trackers, io, calls) ==
    /\ config \in cfgs
    /\ tracker \in trackers
    /\ failing \in io
    /\ budget = calls
    /\ \E st \in stores :
         /\ files = st.files
         /\ metadata = st.metadata
         /\ pieceStatus = st.pieceStatus
    /\ pc = [p \in Procs |-> "idle"]
    /\ op = [p \in Procs |-> "none"]
    /\ name = [p \in Procs |-> "a"]
    /\ i = [p \in Procs |-> 0]
    /\ err = [p \in Procs |-> Nil]
    /\ fetched = [p \in Procs |-> NoMi]
    /\ miRaw = [p \in Procs |-> Absent]
    /\ result = [p \in Procs |-> NoResult]
    /\ log = [p \in Procs |-> <<>>]
    /\ stale = [p \in Procs |-> FALSE]
    /\ overlap = [p \in Procs |-> {}]
    /\ deleted = [n \in Names |-> FALSE]
Constructed(cfgs, trackers, io, calls) ==
    ConstructedOver(InitStores, cfgs, trackers, io, calls)

\* The default archive over an honest tracker, under MaxCalls calls of
\* concurrent goroutines.
Init == Constructed({DefaultTorrentArchive}, {"honest"}, {TRUE}, MaxCalls)
\* The same over a file store whose I/O never fails.
InitHealthy == Constructed({DefaultTorrentArchive}, {"honest"}, {FALSE}, MaxCalls)
\* An archive of any configuration over any tracker, under one call.
InitConfigured ==
    Constructed({NewTorrentArchive(c) : c \in Configs}, Trackers, {TRUE}, 1)
\* The default archive over whatever an earlier run left and over any
\* tracker, under one call.
InitStored ==
    ConstructedOver(StoredStores, {DefaultTorrentArchive}, Trackers, {TRUE}, 1)

(* ---------------------------------------------------------------- callers *)

Running(p) == pc[p] # "idle"
\* The call of goroutine q is a running CreateTorrent of the name of a
\* CreateTorrent that begins.
Concurrent(q, o, n) ==
    Running(q) /\ o = "CreateTorrent" /\ op[q] = "CreateTorrent" /\ name[q] = n

\* Goroutine p calls method o with name n. A call begins with its first call
\* of the file store, so this is part of the first step of every method.
Call(p, o, n) ==
    /\ pc[p] = "idle"
    /\ \A q \in Procs : q < p => op[q] # "none"
    /\ (\A q \in Procs : op[q] = "none") => n = "a"
    /\ budget > 0
    /\ budget' = budget - 1
    /\ op' = [op EXCEPT ![p] = o]
    /\ name' = [name EXCEPT ![p] = n]
    /\ i' = [i EXCEPT ![p] = 0]
    /\ err' = [err EXCEPT ![p] = Nil]
    /\ fetched' = [fetched EXCEPT ![p] = NoMi]
    /\ overlap' = [q \in Procs |->
                     IF q = p THEN {r \in Procs \ {p} : Concurrent(r, o, n)}
                     ELSE IF Concurrent(q, o, n) THEN overlap[q] \cup {p}
                     ELSE overlap[q] \ {p}]
    /\ UNCHANGED env

\* The call of goroutine p goes on at label l / returns r.
Goto(p, l) ==
    /\ pc' = [pc EXCEPT ![p] = l]
    /\ result' = [result EXCEPT ![p] = NoResult]
Return(p, r) ==
    /\ pc' = [pc EXCEPT ![p] = "idle"]
    /\ result' = [result EXCEPT ![p] = r]

\* The first / a later collaborator call of the call of goroutine p.
LoggedFirst(p, e) == log' = [log EXCEPT ![p] = <<e>>]
Logged(p, e) == log' = [log EXCEPT ![p] = Append(@, e)]

(* ------------------------------------------------------- downloadMetaInfo *)

\* Faulty variants of the definitions below: a sleep before the first
\* attempt too; a loop that makes one attempt too many; a not-found answer retried like any other error; the error of
\* downloadMetaInfo wrapped by CreateTorrent.
downloadMetaInfoSleepsAlways(k) == k >= 0
downloadMetaInfoLoopsOnceMore(k) == k <= config.UnavailableMetaInfoRetries
downloadMetaInfoNeverStops(e) == FALSE
CreateTorrentDownloadErrorWrapped(e) == Errorf("download metainfo", e)

\* for i := 0; i < a.config.UnavailableMetaInfoRetries; i++
downloadMetaInfoLoops(k) == k < config.UnavailableMetaInfoRetries
\* if i > 0 { time.Sleep(...) }
downloadMetaInfoSleeps(k) == k > 0
\* if err == metainfoclient.ErrNotFound { return nil, storage.ErrNotFound }
downloadMetaInfoStops(e) == e = ClientErrNotFound
\* CreateTorrent: mi, err := a.downloadMetaInfo(...); if err != nil { return nil, err }
CreateTorrentDownloadError(e) == e

\* One iteration of the loop: the sleep, the Download, and what follows it.
downloadMetaInfoAttempt(p) ==
    /\ pc[p] = "download"
    /\ downloadMetaInfoLoops(i[p])
    /\ \E out \in DownloadOutcomes(name[p]) :
         LET slept == IF downloadMetaInfoSleeps(i[p])
                      THEN <<Ev("Sleep", "")>> ELSE <<>>
             lg(o) == log[p] \o slept \o <<Ev("Download", o)>>
             answer == IF out.err = ClientErrNotFound THEN "ErrNotFound" ELSE "error"
         IN  IF out.err # Nil
             THEN IF downloadMetaInfoStops(out.err)
                  THEN /\ log' = [log EXCEPT ![p] = lg(answer)]
                       /\ Return(p, Failure(CreateTorrentDownloadError(ErrNotFound)))
                       /\ err' = [err EXCEPT ![p] = out.err]
                       /\ UNCHANGED <<i, fetched>>
                  ELSE /\ log' = [log EXCEPT ![p] = lg(answer)]
                       /\ err' = [err EXCEPT ![p] = out.err]
                       /\ i' = [i EXCEPT ![p] = @ + 1]
                       /\ UNCHANGED <<pc, result, fetched>>
             ELSE /\ log' = [log EXCEPT ![p] = lg("ok")]
                  /\ fetched' = [fetched EXCEPT ![p] = out.mi]
                  /\ err' = [err EXCEPT ![p] = Nil]
                  /\ pc' = [pc EXCEPT ![p] = "create_ensure"]
                  /\ UNCHANGED <<i, result>>
    /\ UNCHANGED <<env, store, op, name, miRaw, history, budget>>

\* The loop ends without a MetaInfo: fmt.Errorf("download metainfo: %s", err).
downloadMetaInfoExhausted(p) ==
    /\ pc[p] = "download"
    /\ ~downloadMetaInfoLoops(i[p])
    /\ Return(p, Failure(CreateTorrentDownloadError(Errorf("download metainfo", err[p]))))
    /\ UNCHANGED <<env, store, op, name, locals, log, history, budget>>

(* ---------------------------------------------------------- CreateTorrent *)

\* A faulty variant of CreateTorrentGetMetadata: the MetaInfo is downloaded
\* whether the slot is present or not.
CreateTorrentGetMetadataRefetches(p, n) ==
    /\ Call(p, "CreateTorrent", n)
    /\ \E r \in GetMetadataOutcomes(metadata, n) :
         /\ LoggedFirst(p, Ev("GetMetadata", ReadOutcome(r.err)))
         /\ IF IsNotExist(r.err) \/ r.err = Nil
            THEN Goto(p, "download")
            ELSE Return(p, Failure(Errorf("get metainfo", r.err)))
         /\ miRaw' = [miRaw EXCEPT ![p] = r.raw]
    /\ stale' = [stale EXCEPT ![p] = FALSE]
    /\ UNCHANGED <<store, deleted>>

\* miRaw, err := downloadOrCache.GetMetadata(name, store.NewTorrentMeta())
CreateTorrentGetMetadata(p, n) ==
    /\ Call(p, "CreateTorrent", n)
    /\ \E r \in GetMetadataOutcomes(metadata, n) :
         /\ LoggedFirst(p, Ev("GetMetadata", ReadOutcome(r.err)))
         /\ IF IsNotExist(r.err)
            THEN Goto(p, "download")
            ELSE IF r.err # Nil
            THEN Return(p, Failure(Errorf("get metainfo", r.err)))
            ELSE Goto(p, "create_new")
         /\ miRaw' = [miRaw EXCEPT ![p] = r.raw]
    /\ stale' = [stale EXCEPT ![p] = FALSE]
    /\ UNCHANGED <<store, deleted>>

\* A faulty variant of CreateTorrentFileLength: a length off by one.
CreateTorrentFileLengthOffByOne(mi) == mi.length + 1

\* The arguments of a.fs.EnsureDownloadOrCacheFilePresent(mi.Name(), mi.Info.Length)
CreateTorrentFileName(n, mi) == mi.name
CreateTorrentFileLength(mi) == mi.length

\* A faulty variant of CreateTorrentEnsureFile: the call goes on to the
\* write without the allocation.
CreateTorrentEnsureFileSkipped(p) ==
    /\ pc[p] = "create_ensure"
    /\ pc' = [pc EXCEPT ![p] = "create_set"]
    /\ UNCHANGED <<env, store, op, name, locals, result, log, history, budget>>

\* a.fs.EnsureDownloadOrCacheFilePresent(mi.Name(), mi.Info.Length)
CreateTorrentEnsureFile(p) ==
    /\ pc[p] = "create_ensure"
    /\ \/ /\ files' = EnsureDownloadOrCacheFilePresent(
                          files, CreateTorrentFileName(name[p], fetched[p]),
                          CreateTorrentFileLength(fetched[p]))
          /\ Logged(p, Ev("EnsureFilePresent", "ok"))
          /\ pc' = [pc EXCEPT ![p] = "create_set"]
          /\ UNCHANGED result
       \/ \E e \in IOErrors :
            /\ Logged(p, Ev("EnsureFilePresent", "error"))
            /\ Return(p, Failure(Errorf("ensure download/cache file present", e)))
            /\ UNCHANGED files
    /\ UNCHANGED <<env, metadata, pieceStatus, op, name, locals, history, budget>>

\* Faulty variants of the two definitions below: a write that overwrites the
\* slot; miRaw left at the bytes the call serialized itself.
CreateTorrentCommitOverwrites(slots, n, raw) == SetMetadata(slots, n, raw)
\* Another: the write made only when the file of the name exists.
CreateTorrentCommitChecksFile(slots, n, raw) ==
    IF files[n] = NoFile THEN [slots |-> slots, raw |-> raw]
    ELSE GetOrSetMetadata(slots, n, raw)
CreateTorrentKeepsOwnRaw(own, returned) == own

\* The metadata write CreateTorrent issues:
\* downloadOrCache.GetOrSetMetadata(name, store.NewTorrentMeta(), miRaw)
CreateTorrentCommit(slots, n, raw) == GetOrSetMetadata(slots, n, raw)
\* miRaw, err = downloadOrCache.GetOrSetMetadata(...): miRaw is what the call returned
CreateTorrentCommittedRaw(own, returned) == returned

\* A faulty variant of CreateTorrentGetOrSet: a failed write is ignored and
\* the call goes on with the bytes it serialized.
CreateTorrentGetOrSetIgnoresError(p) ==
    /\ pc[p] = "create_set"
    /\ \/ LET own == Serialize(fetched[p])
              r == CreateTorrentCommit(metadata, name[p], own)
          IN  /\ metadata' = r.slots
              /\ miRaw' = [miRaw EXCEPT ![p] = CreateTorrentCommittedRaw(own, r.raw)]
              /\ Logged(p, Ev("GetOrSetMetadata", "ok"))
       \/ \E e \in IOErrors :
            /\ Logged(p, Ev("GetOrSetMetadata", "error"))
            /\ miRaw' = [miRaw EXCEPT ![p] = Serialize(fetched[p])]
            /\ UNCHANGED metadata
    /\ pc' = [pc EXCEPT ![p] = "create_new"]
    /\ UNCHANGED <<env, files, pieceStatus, op, name, i, err, fetched, result, history, budget>>

\* miRaw, err = mi.Serialize(); miRaw, err = downloadOrCache.GetOrSetMetadata(...)
CreateTorrentGetOrSet(p) ==
    /\ pc[p] = "create_set"
    /\ \/ LET own == Serialize(fetched[p])
              r == CreateTorrentCommit(metadata, name[p], own)
          IN  /\ metadata' = r.slots
              /\ miRaw' = [miRaw EXCEPT ![p] = CreateTorrentCommittedRaw(own, r.raw)]
              /\ Logged(p, Ev("GetOrSetMetadata", "ok"))
              /\ pc' = [pc EXCEPT ![p] = "create_new"]
              /\ UNCHANGED result
       \/ \E e \in IOErrors :
            /\ Logged(p, Ev("GetOrSetMetadata", "error"))
            /\ Return(p, Failure(Errorf("get or set metainfo", e)))
            /\ UNCHANGED <<metadata, miRaw>>
    /\ UNCHANGED <<env, files, pieceStatus, op, name, i, err, fetched, history, budget>>

\* A faulty variant of CreateTorrentDecode: the MetaInfo the call downloaded
\* itself is used when there is one.
CreateTorrentDecodeOwn(raw, own) ==
    IF own # NoMi THEN [mi |-> own, err |-> Nil] ELSE DeserializeMetaInfo(raw)

\* mi, err := core.DeserializeMetaInfo(miRaw); own is the mi of the download
CreateTorrentDecode(raw, own) == DeserializeMetaInfo(raw)

\* A faulty variant of ParseError: bytes that do not decode reported as a
\* missing slot.
ParseErrorAsNotExist(e) == ErrNotExist

\* return nil, fmt.Errorf("parse metainfo: %s", err)
ParseError(e) == Errorf("parse metainfo", e)

\* mi, err := core.DeserializeMetaInfo(miRaw); t, err := NewTorrent(a.fs, mi)
NewTorrentStep(p, d) ==
    /\ IF d.err # Nil
       THEN /\ Return(p, Failure(ParseError(d.err)))
            /\ UNCHANGED log
       ELSE \/ /\ Logged(p, Ev("NewTorrent", "ok"))
               /\ Return(p, Torrent(d.mi))
            \/ \E e \in IOErrors :
                      /\ Logged(p, Ev("NewTorrent", "error"))
                 /\ Return(p, Failure(Errorf("initialize torrent", e)))
    /\ UNCHANGED <<env, store, op, name, locals, history, budget>>

CreateTorrentNewTorrent(p) ==
    /\ pc[p] = "create_new"
    /\ NewTorrentStep(p, CreateTorrentDecode(miRaw[p], fetched[p]))

(* ------------------------------------------------------------- GetTorrent *)

\* A faulty variant of GetTorrentGetMetadata: an absent slot sends the call to
\* downloadMetaInfo, as in CreateTorrent.
GetTorrentGetMetadataDownloads(p, n) ==
    /\ Call(p, "GetTorrent", n)
    /\ \E r \in GetMetadataOutcomes(metadata, n) :
         /\ LoggedFirst(p, Ev("GetMetadata", ReadOutcome(r.err)))
         /\ IF IsNotExist(r.err)
            THEN Goto(p, "download")
            ELSE IF r.err # Nil
            THEN Return(p, Failure(Errorf("get metainfo", r.err)))
            ELSE Goto(p, "get_new")
         /\ miRaw' = [miRaw EXCEPT ![p] = r.raw]
    /\ stale' = [stale EXCEPT ![p] = FALSE]
    /\ UNCHANGED <<store, deleted>>

\* Another: the read made of the PieceStatus slot.
GetTorrentGetMetadataWrongSlot(p, n) ==
    /\ Call(p, "GetTorrent", n)
    /\ \E r \in GetMetadataOutcomes(pieceStatus, n) :
         /\ LoggedFirst(p, Ev("GetMetadata", ReadOutcome(r.err)))
         /\ IF r.err # Nil
            THEN Return(p, Failure(Errorf("get metainfo", r.err)))
            ELSE Goto(p, "get_new")
         /\ miRaw' = [miRaw EXCEPT ![p] = r.raw]
    /\ stale' = [stale EXCEPT ![p] = FALSE]
    /\ UNCHANGED <<store, deleted>>

\* miRaw, err := downloadOrCache.GetMetadata(name, store.NewTorrentMeta())
GetTorrentGetMetadata(p, n) ==
    /\ Call(p, "GetTorrent", n)
    /\ \E r \in GetMetadataOutcomes(metadata, n) :
         /\ LoggedFirst(p, Ev("GetMetadata", ReadOutcome(r.err)))
         /\ IF r.err # Nil
            THEN Return(p, Failure(Errorf("get metainfo", r.err)))
            ELSE Goto(p, "get_new")
         /\ miRaw' = [miRaw EXCEPT ![p] = r.raw]
    /\ stale' = [stale EXCEPT ![p] = FALSE]
    /\ UNCHANGED <<store, deleted>>

GetTorrentNewTorrent(p) ==
    /\ pc[p] = "get_new"
    /\ NewTorrentStep(p, DeserializeMetaInfo(miRaw[p]))

(* ------------------------------------------------------------------- Stat *)

\* newBitfieldFromPieceStatusBytes(name, raw): bit k is set iff byte k says
\* the piece is complete; it returns no error.
newBitfieldFromPieceStatusBytes(n, raw) == [k \in DOMAIN raw |-> raw[k] = 1]

\* A faulty variant of StatReadError: the error of the read wrapped, as
\* GetTorrent does.
StatReadErrorWrapped(e) == Errorf("get metainfo", e)

\* if err != nil { return nil, err } after either GetMetadata of Stat
StatReadError(e) == e

\* raw, err := downloadOrCache.GetMetadata(name, store.NewTorrentMeta());
\* mi, err := core.DeserializeMetaInfo(raw)
StatGetMetaInfo(p, n) ==
    /\ Call(p, "Stat", n)
    /\ \E r \in GetMetadataOutcomes(metadata, n) :
         LET d == DeserializeMetaInfo(r.raw)
         IN  /\ LoggedFirst(p, Ev("GetMetadata", ReadOutcome(r.err)))
             /\ IF r.err # Nil
                THEN Return(p, Failure(StatReadError(r.err)))
                ELSE IF d.err # Nil
                THEN Return(p, Failure(Errorf("deserialize metainfo", d.err)))
                ELSE Goto(p, "stat_pieces")
             /\ miRaw' = [miRaw EXCEPT ![p] = r.raw]
    /\ stale' = [stale EXCEPT ![p] = FALSE]
    /\ UNCHANGED <<store, deleted>>

\* raw, err = downloadOrCache.GetMetadata(name, store.NewPieceStatus());
\* b := newBitfieldFromPieceStatusBytes(name, raw)
StatGetPieceStatus(p) ==
    /\ pc[p] = "stat_pieces"
    /\ \E r \in GetMetadataOutcomes(pieceStatus, name[p]) :
         /\ Logged(p, Ev("GetPieceStatus", ReadOutcome(r.err)))
         /\ IF r.err # Nil
            THEN Return(p, Failure(StatReadError(r.err)))
            ELSE Return(p, TorrentInfo(DeserializeMetaInfo(miRaw[p]).mi,
                                       newBitfieldFromPieceStatusBytes(name[p], r.raw)))
    /\ UNCHANGED <<env, store, op, name, locals, history, budget>>

(* ---------------------------------------------------------- DeleteTorrent *)

\* A faulty variant of DeleteTorrentError: every error is returned.
DeleteTorrentErrorUnfiltered(e) == e

\* if err := a.fs.DeleteDownloadOrCacheFile(name); err != nil && !os.IsNotExist(err)
\* { return err }; return nil
DeleteTorrentError(e) == IF e # Nil /\ ~IsNotExist(e) THEN e ELSE Nil

\* a.fs.DeleteDownloadOrCacheFile(name) reports os.ErrNotExist for an absent
\* file; otherwise it removes the file together with its metadata slots, or
\* fails.
DeleteTorrent(p, n) ==
    /\ Call(p, "DeleteTorrent", n)
    /\ IF files[n] = NoFile
       THEN /\ LoggedFirst(p, Ev("DeleteFile", "NotExist"))
            /\ Return(p, Failure(DeleteTorrentError(ErrNotExist)))
            /\ UNCHANGED store
       ELSE \/ /\ files' = [files EXCEPT ![n] = NoFile]
               /\ metadata' = [metadata EXCEPT ![n] = Absent]
               /\ pieceStatus' = [pieceStatus EXCEPT ![n] = Absent]
               /\ LoggedFirst(p, Ev("DeleteFile", "ok"))
               /\ Return(p, Failure(DeleteTorrentError(Nil)))
            \/ \E e \in IOErrors :
                      /\ LoggedFirst(p, Ev("DeleteFile", "error"))
                 /\ Return(p, Failure(DeleteTorrentError(e)))
                 /\ UNCHANGED store
    /\ miRaw' = [miRaw EXCEPT ![p] = Absent]
    /\ stale' = [q \in Procs |-> IF q = p THEN FALSE
                                 ELSE IF name[q] = n THEN TRUE ELSE stale[q]]
    /\ deleted' = [deleted EXCEPT ![n] = TRUE]

(* ----------------------------------------------------------- specification *)

Next ==
    \/ \E p \in Procs, n \in Names : StatGetMetaInfo(p, n)
    \/ \E p \in Procs : StatGetPieceStatus(p)
    \/ \E p \in Procs, n \in Names : CreateTorrentGetMetadata(p, n)
    \/ \E p \in Procs : downloadMetaInfoAttempt(p)
    \/ \E p \in Procs : downloadMetaInfoExhausted(p)
    \/ \E p \in Procs : CreateTorrentEnsureFile(p)
    \/ \E p \in Procs : CreateTorrentGetOrSet(p)
    \/ \E p \in Procs : CreateTorrentNewTorrent(p)
    \/ \E p \in Procs, n \in Names : GetTorrentGetMetadata(p, n)
    \/ \E p \in Procs : GetTorrentNewTorrent(p)
    \/ \E p \in Procs, n \in Names : DeleteTorrent(p, n)

Spec == Init /\ [][Next]_vars
SpecHealthy == InitHealthy /\ [][Next]_vars
SpecConfigured == InitConfigured /\ [][Next]_vars
SpecStored == InitStored /\ [][Next]_vars

\* The next step of the running call of goroutine p: a call of a
\* collaborator and the code up to the next one.
Step(p) ==
    \/ StatGetPieceStatus(p)
    \/ downloadMetaInfoAttempt(p)
    \/ downloadMetaInfoExhausted(p)
    \/ CreateTorrentEnsureFile(p)
    \/ CreateTorrentGetOrSet(p)
    \/ CreateTorrentNewTorrent(p)
    \/ GetTorrentNewTorrent(p)
\* Every call of a collaborator returns and the goroutine is scheduled again.
Fairness == \A p \in Procs : WF_vars(Step(p))
SpecFair == InitHealthy /\ [][Next]_vars /\ Fairness

(* ------------------------------------------------------------ properties *)

\* The last call of goroutine p was method o and has returned.
Done(p, o) == pc[p] = "idle" /\ op[p] = o
Succeeded(p) == result[p].err = Nil
\* The first read of the call of p found the TorrentMeta slot absent.
SawAbsent(p) == log[p] # <<>> /\ log[p][1] = Ev("GetMetadata", "NotExist")
\* The calls of metaInfoClient.Download / the sleeps of the call of p.
Downloads(p) == Cardinality({k \in DOMAIN log[p] : log[p][k][1] = "Download"})
Sleeps(p) == Cardinality({k \in DOMAIN log[p] : log[p][k][1] = "Sleep"})
\* The calls with which the call of p wrote (or tried to write) the store.
Writes(p) ==
    {k \in DOMAIN log[p] : log[p][k][1] \in {"EnsureFilePresent", "GetOrSetMetadata"}}
\* What the call of p did after its first read.
AfterRead(p) == Tail(log[p])

\* j attempts, the first j - 1 of them failed and the last ended as last,
\* with one sleep between consecutive attempts and nowhere else.
RECURSIVE FetchTrace(_, _)
FetchTrace(j, last) ==
    IF j = 0 THEN <<>>
    ELSE IF j = 1 THEN <<Ev("Download", last)>>
    ELSE <<Ev("Download", "error"), Ev("Sleep", "")>> \o FetchTrace(j - 1, last)

\* Two CreateTorrent calls of one name that ran concurrently, the earlier of
\* them on an absent slot, with no DeleteTorrent of the name since.
ConcurrentCreates(p, q) ==
    /\ p # q
    /\ Done(p, "CreateTorrent") /\ Done(q, "CreateTorrent")
    /\ name[p] = name[q]
    /\ q \in overlap[p]
    /\ SawAbsent(p) \/ SawAbsent(q)
    /\ ~stale[p] /\ ~stale[q]

FailedNotFound(p) == result[p].err = ErrNotFound
FailedExhausted(p) == result[p].err # Nil /\ Head(result[p].err) = "download metainfo"
\* No I/O call of the call of p failed.
NoIOFailure(p) == \A k \in DOMAIN log[p] : log[p][k][2] # "error" \/ log[p][k][1] = "Download"

\* C1 as stated: concurrent CreateTorrent calls of one absent name, none of
\* which met an I/O failure of the store, either all fail with the same class
\* of error (NotFound or FetchExhausted) or all succeed from the same bytes.
C1_AllFailAlikeOrAllSucceed ==
    \A p, q \in Procs :
        ConcurrentCreates(p, q) /\ NoIOFailure(p) /\ NoIOFailure(q) =>
            \/ Succeeded(p) /\ Succeeded(q) /\ miRaw[p] = miRaw[q]
            \/ FailedNotFound(p) /\ FailedNotFound(q)
            \/ FailedExhausted(p) /\ FailedExhausted(q)

\* C1 amended: of concurrent CreateTorrent calls of one absent name, those that
\* succeed build their handles from the same bytes, the bytes the slot holds;
\* and a call fails with NotFound (FetchExhausted) exactly when its own fetch
\* ended with the not-found answer (without any answer), whatever the others did.
C1_SucceedingCallsConverge ==
    \A p, q \in Procs :
        ConcurrentCreates(p, q) =>
            /\ Succeeded(p) /\ Succeeded(q) =>
                 /\ miRaw[p] = miRaw[q]
                 /\ miRaw[p] = metadata[name[p]]
                 /\ result[p].t = result[q].t
            /\ FailedNotFound(p) <=>
                 log[p][Len(log[p])] = Ev("Download", "ErrNotFound")
            /\ FailedExhausted(p) <=>
                 /\ SawAbsent(p)
                 /\ \A k \in DOMAIN log[p] :
                      log[p][k] \notin {Ev("Download", "ok"), Ev("Download", "ErrNotFound")}

\* Two concurrent calls downloaded different MetaInfos and both succeeded.
C1_Witness ==
    \E p, q \in Procs :
        /\ ConcurrentCreates(p, q)
        /\ Succeeded(p) /\ Succeeded(q)
        /\ SawAbsent(p) /\ SawAbsent(q)
        /\ fetched[p] # fetched[q]

\* C2: two CreateTorrent calls of one name that both succeeded, with no
\* DeleteTorrent of the name since either began, hold handles of the MetaInfo
\* decoded from the bytes the slot holds, whatever they had serialized.
C2_HandlesFromCommittedBytes ==
    \A p, q \in Procs :
        /\ Done(p, "CreateTorrent") /\ Done(q, "CreateTorrent")
        /\ name[p] = name[q]
        /\ Succeeded(p) /\ Succeeded(q)
        /\ ~stale[p] /\ ~stale[q]
        => /\ result[p].t = DeserializeMetaInfo(metadata[name[p]]).mi
           /\ result[q].t = result[p].t

\* Two calls succeeded and one of them had serialized other bytes than the
\* ones it was handed back.
C2_Witness ==
    \E p, q \in Procs :
        /\ p # q
        /\ Done(p, "CreateTorrent") /\ Done(q, "CreateTorrent")
        /\ name[p] = name[q]
        /\ Succeeded(p) /\ Succeeded(q)
        /\ ~stale[p] /\ ~stale[q]
        /\ fetched[q] # NoMi
        /\ Serialize(fetched[q]) # miRaw[q]

\* C3: a step changes the bytes of a TorrentMeta slot only by filling an
\* absent slot in the GetOrSetMetadata step of a CreateTorrent of that name,
\* or in a DeleteTorrent of that name: no step of Stat, CreateTorrent or
\* GetTorrent changes committed bytes.
C3_CommittedBytesImmutable ==
    [][\A n \in Names :
         metadata'[n] # metadata[n] =>
            \/ /\ metadata[n] = Absent
               /\ \E p \in Procs : name[p] = n /\ CreateTorrentGetOrSet(p)
            \/ \E p \in Procs : DeleteTorrent(p, n)]_vars

\* A CreateTorrent issued its write with bytes other than the committed ones
\* and the slot kept the committed ones.
C3_Witness ==
    \E p \in Procs :
        /\ pc[p] = "create_new"
        /\ fetched[p] # NoMi
        /\ metadata[name[p]] # Serialize(fetched[p])
        /\ metadata[name[p]] = miRaw[p]

\* C4 as stated: the file of every name with committed MetaInfo has the
\* length the committed MetaInfo declares.
C4_FileLengthMatchesCommitted ==
    \A n \in Names :
        metadata[n] # Absent =>
            files[n] = DeserializeMetaInfo(metadata[n]).mi.length

\* C4 amended: the same for every name of which no DeleteTorrent has been
\* called and whose committed MetaInfo bears that name.
C4_FileLengthMatchesUnlessDeleted ==
    \A n \in Names :
        /\ metadata[n] # Absent
        /\ ~deleted[n]
        /\ DeserializeMetaInfo(metadata[n]).mi.name = n
        => files[n] = DeserializeMetaInfo(metadata[n]).mi.length

\* A CreateTorrent has allocated the file and committed the MetaInfo.
C4_Witness ==
    \E p \in Procs :
        /\ op[p] = "CreateTorrent"
        /\ \E k \in DOMAIN log[p] : log[p][k] = Ev("GetOrSetMetadata", "ok")
        /\ ~deleted[name[p]]
        /\ metadata[name[p]] # Absent
        /\ files[name[p]] = LengthOf(name[p])

C6_DeleteTorrentSucceeds ==
    \A p \in Procs :
        Done(p, "DeleteTorrent") =>
            /\ Len(log[p]) = 1 /\ log[p][1][1] = "DeleteFile"
            /\ log[p][1][2] \in {"ok", "NotExist"} <=> result[p].err = Nil
            /\ log[p][1][2] = "error" <=> result[p].err = ErrIO

\* Two DeleteTorrent of one name in a row: the first removed the file, the
\* second found it absent, both returned nil.
C6_Witness ==
    \E p, q \in Procs :
        /\ p # q
        /\ Done(p, "DeleteTorrent") /\ Done(q, "DeleteTorrent")
        /\ name[p] = name[q]
        /\ log[p] = <<Ev("DeleteFile", "ok")>>
        /\ log[q] = <<Ev("DeleteFile", "NotExist")>>
        /\ Succeeded(p) /\ Succeeded(q)

Retries == config.UnavailableMetaInfoRetries
\* Every Download of the call of p failed with an error other than not-found.
AllTransient(p) ==
    \A k \in DOMAIN log[p] : log[p][k][1] = "Download" => log[p][k][2] = "error"

\* C7: a CreateTorrent whose downloadMetaInfo got an error other than
\* not-found from every Download has made exactly Retries calls of Download
\* with one sleep between consecutive ones and none elsewhere, and returned
\* "download metainfo: " followed by the last error.
C7_ExhaustsAfterRetriesAttempts ==
    \A p \in Procs :
        Done(p, "CreateTorrent") /\ SawAbsent(p) /\ AllTransient(p) =>
            /\ AfterRead(p) = FetchTrace(Retries, "error")
            /\ Downloads(p) = Retries
            /\ Sleeps(p) = IF Retries = 0 THEN 0 ELSE Retries - 1
            /\ result[p] = Failure(Errorf("download metainfo",
                                          IF Retries = 0 THEN Nil ELSE ErrUnavailable))

\* A fetch of two or more attempts ran out of attempts.
C7_Witness ==
    \E p \in Procs :
        /\ Done(p, "CreateTorrent") /\ SawAbsent(p) /\ AllTransient(p)
        /\ Retries >= 2
        /\ Sleeps(p) = Retries - 1
        /\ FailedExhausted(p)

\* C8 as stated: a CreateTorrent that went to downloadMetaInfo has called
\* Download at least once when it returns.
C8_AtLeastOneAttempt ==
    \A p \in Procs :
        Done(p, "CreateTorrent") /\ SawAbsent(p) => Downloads(p) >= 1

\* C9: a Download that answers not-found is the last thing its call does: the
\* call has returned storage.ErrNotFound, and before that answer it made only
\* the failed attempts and the sleeps between attempts (none when the answer
\* came on the first attempt).
C9_NotFoundStopsTheFetch ==
    \A p \in Procs :
        \A k \in DOMAIN log[p] :
            log[p][k] = Ev("Download", "ErrNotFound") =>
                /\ k = Len(log[p])
                /\ pc[p] = "idle"
                /\ result[p].err = ErrNotFound
                /\ Downloads(p) <= Retries
                /\ AfterRead(p) = FetchTrace(Downloads(p), "ErrNotFound")

\* The not-found answer came on the second attempt.
C9_Witness ==
    \E p \in Procs :
        /\ Done(p, "CreateTorrent")
        /\ log[p] = <<Ev("GetMetadata", "NotExist"), Ev("Download", "error"),
                      Ev("Sleep", ""), Ev("Download", "ErrNotFound")>>

\* C10: a CreateTorrent whose fetch ended with the not-found answer returns
\* storage.ErrNotFound itself, has issued no allocation and no metadata
\* write, and (being the only call) leaves the store as it was constructed.
C10_NotFoundPropagatesUnwrapped ==
    \A p \in Procs :
        /\ op[p] = "CreateTorrent"
        /\ log[p] # <<>>
        /\ log[p][Len(log[p])] = Ev("Download", "ErrNotFound")
        => /\ result[p] = Failure(ErrNotFound)
           /\ Writes(p) = {}
           /\ [files |-> files, metadata |-> metadata, pieceStatus |-> pieceStatus]
                \in InitStores
           /\ metadata[name[p]] = Absent /\ files[name[p]] = NoFile

\* A CreateTorrent of an absent name returned storage.ErrNotFound.
C10_Witness ==
    \E p \in Procs :
        /\ Done(p, "CreateTorrent")
        /\ SawAbsent(p)
        /\ result[p].err = ErrNotFound
        /\ metadata[name[p]] = Absent /\ files[name[p]] = NoFile

\* The step is a step of a Stat call of goroutine p.
StatStep(p) == (\E n \in Names : StatGetMetaInfo(p, n)) \/ StatGetPieceStatus(p)
\* The last collaborator call of goroutine p after the step.
LastLogged(p) == log'[p][Len(log'[p])]

\* C11: a step of Stat leaves the file tier and both metadata slots as they
\* are and is a read of a slot, never a Download; a read of an absent slot
\* (the MetaInfo slot or the piece-status slot) is never answered with bytes,
\* and when the read reports the slot absent Stat has returned os.ErrNotExist.
C11_StatReadsOnly ==
    [][\A p \in Procs :
         StatStep(p) =>
            /\ UNCHANGED store
            /\ \A k \in DOMAIN log'[p] :
                 log'[p][k][1] \in {"GetMetadata", "GetPieceStatus"}
            /\ (IF LastLogged(p)[1] = "GetMetadata"
                THEN metadata[name'[p]] ELSE pieceStatus[name'[p]]) = Absent
                 => LastLogged(p)[2] \in {"NotExist", "error"}
            /\ LastLogged(p)[2] = "NotExist"
                 => /\ pc'[p] = "idle"
                    /\ result'[p] = Failure(ErrNotExist)]_vars

\* A Stat of a name with MetaInfo and no piece status has returned
\* os.ErrNotExist after its second read.
C11_Witness ==
    \E p \in Procs :
        /\ Done(p, "Stat")
        /\ log[p] = <<Ev("GetMetadata", "ok"), Ev("GetPieceStatus", "NotExist")>>
        /\ metadata[name[p]] # Absent /\ pieceStatus[name[p]] = Absent
        /\ result[p].err = ErrNotExist

\* C12 as stated: a Stat that read malformed bytes from the MetaInfo slot,
\* or well-formed MetaInfo and then malformed bytes from the piece-status
\* slot, has returned an error and no TorrentInfo.
C12_StatFailsOnMalformedSlots ==
    \A p \in Procs :
        /\ Done(p, "Stat")
        /\ log[p][1] = Ev("GetMetadata", "ok")
        /\ \/ ~WellFormed(metadata[name[p]])
           \/ /\ Len(log[p]) = 2 /\ log[p][2] = Ev("GetPieceStatus", "ok")
              /\ ~WellFormedPieceStatus(pieceStatus[name[p]])
        => /\ result[p].err # Nil
           /\ result[p].t = NoMi

\* C13: a GetTorrent or CreateTorrent that read corrupted bytes from a
\* present MetaInfo slot makes no other collaborator call (no Download, no
\* second read, no write), leaves the slot as it is, and returns
\* "parse metainfo: " followed by the decode error, which is not NotExist.
C13_CorruptedMetaInfoIsParseError ==
    \A p \in Procs :
        /\ op[p] \in {"GetTorrent", "CreateTorrent"}
        /\ log[p] # <<>> /\ log[p][1] = Ev("GetMetadata", "ok")
        /\ ~WellFormed(miRaw[p])
        => /\ log[p] = <<Ev("GetMetadata", "ok")>>
           /\ pc[p] \in {"get_new", "create_new", "idle"}
           /\ metadata[name[p]] = miRaw[p]
           /\ pc[p] = "idle" =>
                /\ result[p] = Failure(Errorf("parse metainfo", ErrBencode))
                /\ ~IsNotExist(result[p].err)

\* A GetTorrent of a name with corrupted MetaInfo has returned.
C13_Witness ==
    \E p \in Procs :
        /\ Done(p, "GetTorrent")
        /\ metadata[name[p]] # Absent /\ ~WellFormed(metadata[name[p]])
        /\ Head(result[p].err) = "parse metainfo"

\* A CreateTorrent of name n by another goroutine than p has returned
\* success, and no DeleteTorrent of n has run since it began.
CreatedBefore(p, n) ==
    \E q \in Procs \ {p} :
        /\ Done(q, "CreateTorrent") /\ name[q] = n
        /\ Succeeded(q) /\ ~stale[q]

\* C14: a CreateTorrent that begins after a successful CreateTorrent of the
\* name, with no DeleteTorrent in between, reads the slot present (unless the
\* read itself fails); and a CreateTorrent that read the slot present makes
\* no Download, no EnsureDownloadOrCacheFilePresent and no GetOrSetMetadata:
\* after the read it only decodes and builds.
C14_PresentSlotSkipsFetch ==
    [][\A p \in Procs :
         /\ \A n \in Names :
              CreatedBefore(p, n) /\ CreateTorrentGetMetadata(p, n) =>
                 log'[p] \in {<<Ev("GetMetadata", "ok")>>, <<Ev("GetMetadata", "error")>>}
         /\ /\ op'[p] = "CreateTorrent"
            /\ log'[p] # <<>> /\ log'[p][1] = Ev("GetMetadata", "ok")
            => /\ \A k \in DOMAIN log'[p] : log'[p][k][1] \in {"GetMetadata", "NewTorrent"}
               /\ Len(log'[p]) <= 2
               /\ pc'[p] \in {"create_new", "idle"}
               /\ fetched'[p] = NoMi]_vars

\* A CreateTorrent downloaded and committed the MetaInfo; a later one of the
\* same name read it and built its handle without a fetch.
C14_Witness ==
    \E p, q \in Procs :
        /\ p # q /\ name[p] = name[q]
        /\ Done(q, "CreateTorrent") /\ Succeeded(q) /\ SawAbsent(q) /\ ~stale[q]
        /\ Done(p, "CreateTorrent") /\ Succeeded(p) /\ ~stale[p]
        /\ q \notin overlap[p]
        /\ log[p] = <<Ev("GetMetadata", "ok"), Ev("NewTorrent", "ok")>>

\* The calls of collaborator c that the call of goroutine p has made.
Stage(p, c) == {k \in DOMAIN log[p] : log[p][k][1] = c}
\* The context CreateTorrent puts before the error of a stage.
StageContext(c) ==
    IF c = "EnsureFilePresent" THEN "ensure download/cache file present"
    ELSE IF c = "GetOrSetMetadata" THEN "get or set metainfo"
    ELSE "initialize torrent"

\* C15: a CreateTorrent calls each of EnsureDownloadOrCacheFilePresent,
\* GetOrSetMetadata and NewTorrent at most once, in that order; a failure of
\* one of them is the last thing the call does: the call has returned the
\* error of that stage and no handle, without writing the slot after a failed
\* allocation and without building after a failed write.
C15_StagesRunOnceAndStopOnFailure ==
    \A p \in Procs :
        op[p] = "CreateTorrent" =>
            /\ \A c \in {"EnsureFilePresent", "GetOrSetMetadata", "NewTorrent"} :
                 /\ Cardinality(Stage(p, c)) <= 1
                 /\ \A k \in Stage(p, c) :
                      log[p][k][2] = "error" =>
                         /\ k = Len(log[p])
                         /\ pc[p] = "idle"
                         /\ result[p] = Failure(Errorf(StageContext(c), ErrIO))
            /\ \A j \in Stage(p, "EnsureFilePresent"), k \in Stage(p, "GetOrSetMetadata") :
                 j < k /\ log[p][j][2] = "ok"
            /\ \A j \in Stage(p, "GetOrSetMetadata"), k \in Stage(p, "NewTorrent") :
                 j < k /\ log[p][j][2] = "ok"

\* The write of a CreateTorrent failed after its allocation: the call
\* returned without building a handle and the slot is still absent.
C15_Witness ==
    \E p \in Procs :
        /\ Done(p, "CreateTorrent")
        /\ log[p][Len(log[p])] = Ev("GetOrSetMetadata", "error")
        /\ Stage(p, "EnsureFilePresent") # {}
        /\ Stage(p, "NewTorrent") = {}
        /\ result[p].t = NoMi
        /\ metadata[name[p]] = Absent

\* C16: every CreateTorrent call returns; it never has made more than
\* UnavailableMetaInfoRetries calls of Download; and its next step never
\* waits for another goroutine: it can be taken in every state in which the
\* call is running.
C16_CreateTorrentTerminates ==
    /\ \A p \in Procs :
         (op[p] = "CreateTorrent" /\ Running(p)) ~> (pc[p] = "idle")
    /\ [](\A p \in Procs :
            /\ op[p] = "CreateTorrent" => Downloads(p) <= Retries
            /\ Running(p) => ENABLED Step(p))

\* A CreateTorrent has returned after failed attempts, a download and all
\* three stages, while another call was running.
C16_Witness ==
    \E p, q \in Procs :
        /\ p # q /\ Running(q)
        /\ Done(p, "CreateTorrent")
        /\ Downloads(p) = Retries
        /\ log[p][Len(log[p])] = Ev("NewTorrent", "ok")

\* Goroutine q is free to begin a call.
MayCall(q) ==
    pc[q] = "idle" /\ budget > 0 /\ \A r \in Procs : r < q => op[r] # "none"

\* C17: nothing holds back a DeleteTorrent of a name while a CreateTorrent of
\* it stands between its allocation and its write: any goroutine free to
\* call can take it. When it has removed the file, the write of the
\* CreateTorrent still commits the MetaInfo, the file stays absent, and the
\* NewTorrent that follows returns the handle.
C17_DeleteRacesCreate ==
    [][\A p \in Procs :
         /\ pc[p] = "create_set" =>
              \A q \in Procs \ {p} : MayCall(q) => ENABLED DeleteTorrent(q, name[p])
         /\ /\ stale[p] /\ files[name[p]] = NoFile /\ metadata[name[p]] = Absent
            /\ CreateTorrentGetOrSet(p)
            /\ LastLogged(p) = Ev("GetOrSetMetadata", "ok")
            => /\ metadata'[name[p]] = Serialize(fetched[p])
               /\ files'[name[p]] = NoFile
               /\ pc'[p] = "create_new"
         /\ /\ stale[p] /\ files[name[p]] = NoFile
            /\ CreateTorrentNewTorrent(p)
            /\ LastLogged(p) = Ev("NewTorrent", "ok")
            => result'[p] = Torrent(DeserializeMetaInfo(miRaw[p]).mi)]_vars

\* A DeleteTorrent removed the file a running CreateTorrent had allocated;
\* the CreateTorrent committed its MetaInfo and returned success, and the
\* file is absent.
C17_Witness ==
    \E p, q \in Procs :
        /\ Done(p, "CreateTorrent") /\ Succeeded(p) /\ stale[p]
        /\ Stage(p, "EnsureFilePresent") # {}
        /\ Done(q, "DeleteTorrent") /\ name[q] = name[p]
        /\ log[q] = <<Ev("DeleteFile", "ok")>>
        /\ metadata[name[p]] = Serialize(fetched[p])
        /\ files[name[p]] = NoFile

\* The MetaInfo committed in the slot of name n.
Committed(n) == DeserializeMetaInfo(metadata[n]).mi

\* C18: the GetOrSetMetadata of a CreateTorrent comes right after its
\* successful EnsureDownloadOrCacheFilePresent; hence, as long as no
\* DeleteTorrent is called, wherever a MetaInfo is committed the file that
\* the call allocated for it exists with the declared length.
C18_FileAllocatedBeforeCommit ==
    /\ \A p \in Procs :
         op[p] = "CreateTorrent" =>
            \A k \in Stage(p, "GetOrSetMetadata") :
                k > 1 /\ log[p][k - 1] = Ev("EnsureFilePresent", "ok")
    /\ \A n \in Names :
         metadata[n] # Absent /\ (\A m \in Names : ~deleted[m]) =>
            files[Committed(n).name] = Committed(n).length

\* The converse order: a CreateTorrent has allocated the file and the
\* MetaInfo of the name is not committed yet.
C18_Witness ==
    \E p \in Procs :
        /\ pc[p] = "create_set"
        /\ log[p][Len(log[p])] = Ev("EnsureFilePresent", "ok")
        /\ files[name[p]] = fetched[p].length
        /\ metadata[name[p]] = Absent
        /\ \A m \in Names : ~deleted[m]

\* The step is a step of a CreateTorrent call of goroutine p.
CreateTorrentStep(p) ==
    \/ \E n \in Names : CreateTorrentGetMetadata(p, n)
    \/ op[p] = "CreateTorrent" /\ Step(p)

\* C19 as stated: a step of CreateTorrent(namespace, name) leaves the file
\* and the metadata slots of every name other than name as they are,
\* whatever MetaInfo the Download returned.
C19_CreateTorrentTouchesOnlyItsName ==
    [][\A p \in Procs :
         CreateTorrentStep(p) =>
            \A m \in Names \ {name'[p]} :
                /\ files'[m] = files[m]
                /\ metadata'[m] = metadata[m]
                /\ pieceStatus'[m] = pieceStatus[m]]_vars

\* C20: a GetTorrent that begins after a successful CreateTorrent of the
\* name, with no DeleteTorrent in between, reads the slot present (unless the
\* read itself fails) and reads the bytes the CreateTorrent used; and a
\* GetTorrent makes no call but its read and NewTorrent, so no Download, and
\* the handle it returns is the MetaInfo decoded from the bytes it read.
C20_GetTorrentAfterCreateTorrent ==
    [][\A p \in Procs :
         /\ \A n \in Names :
              CreatedBefore(p, n) /\ GetTorrentGetMetadata(p, n) =>
                 \/ log'[p] = <<Ev("GetMetadata", "error")>>
                 \/ /\ log'[p] = <<Ev("GetMetadata", "ok")>>
                    /\ pc'[p] = "get_new"
                    /\ \A q \in Procs \ {p} :
                         /\ Done(q, "CreateTorrent") /\ name[q] = n
                         /\ Succeeded(q) /\ ~stale[q]
                         => miRaw'[p] = miRaw[q]
         /\ op'[p] = "GetTorrent" =>
              /\ \A k \in DOMAIN log'[p] : log'[p][k][1] \in {"GetMetadata", "NewTorrent"}
              /\ pc'[p] = "idle" /\ result'[p].err = Nil =>
                   result'[p] = Torrent(DeserializeMetaInfo(miRaw'[p]).mi)]_vars

\* A CreateTorrent downloaded and committed the MetaInfo and a later
\* GetTorrent of the name returned a handle of the same MetaInfo.
C20_Witness ==
    \E p, q \in Procs :
        /\ p # q /\ name[p] = name[q]
        /\ Done(q, "CreateTorrent") /\ Succeeded(q) /\ SawAbsent(q) /\ ~stale[q]
        /\ Done(p, "GetTorrent") /\ Succeeded(p) /\ ~stale[p]
        /\ log[p] = <<Ev("GetMetadata", "ok"), Ev("NewTorrent", "ok")>>
        /\ miRaw[p] = miRaw[q]
        /\ result[p].t = result[q].t

====
